---- MODULE Spec2Model ----
(***************************************************************************)
(* A model of the gpt-turbo conversation engine:                           *)
(*   packages/lib/src/classes/ConversationConfig.ts  (credential, dry run, *)
(*       moderation tri-state)                                             *)
(*   packages/lib/src/classes/Conversation.ts        (prompt, reprompt,    *)
(*       functionPrompt and their rollback)                                *)
(* The history, the plugin service and the chat completion service are     *)
(* collaborators of Conversation.ts whose code is not part of the sources; *)
(* they are modelled by their contract.                                    *)
(*                                                                         *)
(* Every `await` of Conversation.ts is a suspension point: each action     *)
(* below is the code that runs between two suspension points.              *)
(*                                                                         *)
(* The conversation manager of the web package (ConversationManagerProvider *)
(* in packages/web/src/contexts/providers) is modelled beside the engine.  *)
(*                                                                         *)
(* Four specifications:                                                    *)
(*   Spec         one turn at a time, every config; each awaited call of a *)
(*                collaborator is one step                                 *)
(*   SpecSteps    one turn at a time, each plugin hook of a dispatch and   *)
(*                each chunk of a streamed response a step of its own      *)
(*   SpecOverlap  two calls that overlap on one Conversation               *)
(*   SpecManager  the web manager: its list, its active id, its renders    *)
(***************************************************************************)
EXTENDS Integers, Sequences, FiniteSets, TLC

\* ------------------------------------------------------------------ bounds

\* At most this many calls of prompt / reprompt / functionPrompt are started.
MaxTurns == 1

\* ------------------------------------------------------------ input domains

\* Call slots: a slot holds one call of prompt / reprompt / functionPrompt.
Calls == {1, 2}

\* The slots the sequential specification uses (one turn in flight at a time).
SeqCalls == {1}

\* The value of an optional parameter that was not given.
Undefined == "<undefined>"

\* Credentials: "" is the default of the constructor (no credential).
ApiKeys == {"", "sk"}

\* disableModeration?: boolean | "soft"; the booleans are written as strings
\* so that the three values are of one kind.
DisableModerationValues == {"false", "true", "soft"}

\* Prompt texts.
Prompts == {"p"}

\* newPrompt?: string of reprompt.
NewPrompts == {Undefined, "", "n"}

\* Moderation categories the remote moderation check can flag.
Categories == {"hate", "violence"}

\* The answers of the remote moderation check: the flagged categories.
ModerationResults == {{}, {"hate"}, {"hate", "violence"}}

\* Texts of the remote completion service.
Responses == {"r"}

\* Function names of functionPrompt.
FunctionNames == {"f"}

\* Results handed to functionPrompt, and values transformFunctionResult gives:
\* a string, or a number (anything that is not a string).
StrVal(s) == [t |-> "string", s |-> s, n |-> 0]
NumVal(n) == [t |-> "number", s |-> "", n |-> n]
FunctionResults == {StrVal("x"), NumVal(1)}

\* ------------------------------------------------------------- JS values

\* Booleans of the program are written "true" / "false"; a value is falsy, as
\* the operand of `!` or of a condition, when it is false, the empty string or
\* undefined. Every other value ("soft", "true", a non-empty key) is truthy.
Truthy(v) == v \notin {"false", "", Undefined}

\* `x = default` in a destructuring pattern: the default replaces undefined only.
OrDefault(v, d) == IF v = Undefined THEN d ELSE v

\* --------------------------------------------------- ConversationConfig.ts

DEFAULT_DRY == "false"

DEFAULT_DISABLEMODERATION == "false"

DryValues == {"true", "false"}

\* set dry without the credential check: the value is stored as given.
SetDryUnchecked(cfg, d) == [cfg EXCEPT !.dry = d, !.warned = FALSE]

\* set dry(dry): a falsy dry without a credential is replaced by true, with a
\* console warning (warned: the assignment emitted it).
SetDry(cfg, d) ==
    IF ~Truthy(d) /\ ~Truthy(cfg.apiKey)
    THEN [cfg EXCEPT !.dry = "true", !.warned = TRUE]
    ELSE [cfg EXCEPT !.dry = d, !.warned = FALSE]

\* set apiKey without the revalidation of dry.
SetApiKeyNoRevalidation(cfg, k) == [cfg EXCEPT !.apiKey = k]

\* set apiKey that validates the default of dry instead of its current value.
SetApiKeyValidatesDefault(cfg, k) ==
    LET c1 == [cfg EXCEPT !.apiKey = k]
    IN  IF c1.dry # Undefined THEN SetDry(c1, DEFAULT_DRY) ELSE c1

\* set apiKey(apiKey): stores the key and revalidates dry once dry is defined.
SetApiKey(cfg, k) ==
    LET c1 == [cfg EXCEPT !.apiKey = k]
    IN  IF c1.dry # Undefined THEN SetDry(c1, c1.dry) ELSE c1

\* A config no field of which is assigned yet.
NoConfig ==
    [apiKey |-> Undefined, dry |-> Undefined, disableModeration |-> Undefined,
     warned |-> FALSE]

\* constructor({ dry, disableModeration, apiKey }): apiKey is assigned first,
\* then dry, then disableModeration.
NewConversationConfig(apiKeyParam, dryParam, dmParam) ==
    LET c1 == SetApiKey(NoConfig, OrDefault(apiKeyParam, ""))
        c2 == SetDry(c1, OrDefault(dryParam, DEFAULT_DRY))
    IN  [c2 EXCEPT !.disableModeration =
                       OrDefault(dmParam, DEFAULT_DISABLEMODERATION)]

\* isModerationStrict with `!== true` for `!`: "soft" counts as strict.
isModerationStrictNotTrue(cfg) ==
    IF ~Truthy(cfg.apiKey) THEN FALSE ELSE cfg.disableModeration # "true"

\* get isModerationStrict()
isModerationStrict(cfg) ==
    IF ~Truthy(cfg.apiKey) THEN FALSE ELSE ~Truthy(cfg.disableModeration)

\* isModerationSoft comparing with true instead of "soft".
isModerationSoftTrue(cfg) ==
    IF ~Truthy(cfg.apiKey) THEN FALSE ELSE cfg.disableModeration = "true"

\* get isModerationSoft()
isModerationSoft(cfg) ==
    IF ~Truthy(cfg.apiKey) THEN FALSE ELSE cfg.disableModeration = "soft"

\* get isModerationEnabled()
isModerationEnabled(cfg) == isModerationStrict(cfg) \/ isModerationSoft(cfg)

\* ----------------------------------------------------------------- plugins

\* Conversation.globalPlugins when the Conversation is constructed.
globalPlugins == <<"g1", "g2">>

\* The plugins option of the constructor.
plugins == <<"p1">>

\* The plugin list with the conversation's own plugins put first.
PluginListOwnFirst == plugins \o globalPlugins

\* new ConversationPluginService([...Conversation.globalPlugins, ...plugins])
PluginList == globalPlugins \o plugins

\* ------------------------------------------------- messages and the history

\* A Message: id, role, content, name (function messages), moderation flags,
\* and streaming (true while the content is being appended chunk by chunk).
Message(id, role, content, name) ==
    [id |-> id, role |-> role, content |-> content, name |-> name, flags |-> {},
     streaming |-> FALSE]

\* No message (of a reference that is not set).
NoMessage == Message(0, "", "", "")

\* history.addUserMessage / addFunctionMessage / addAssistantMessage: the
\* message is appended at the end of the history.
AddMessage(h, m) == Append(h, m)

\* history.removeMessage(message): by id; removing an absent id is a no-op.
RemoveMessage(h, id) == SelectSeq(h, LAMBDA m : m.id # id)

\* message.flags = flags, on the message of the history with this id.
SetFlags(h, id, flags) ==
    [i \in DOMAIN h |-> IF h[i].id = id THEN [h[i] EXCEPT !.flags = flags] ELSE h[i]]

\* The ids of the messages of a history.
Ids(h) == {h[i].id : i \in DOMAIN h}

\* FindIndex whose "none" (-1) is used as an index from the end.
FindIndexFromEnd(h, id) ==
    IF \E i \in DOMAIN h : h[i].id = id
    THEN CHOOSE i \in DOMAIN h :
             h[i].id = id /\ \A j \in DOMAIN h : h[j].id = id => i <= j
    ELSE Len(h)

\* messages.findIndex((m) => m.id === id): the first index, 0 when there is
\* none (the indices of the model start at 1, findIndex gives -1).
FindIndex(h, id) ==
    IF \E i \in DOMAIN h : h[i].id = id
    THEN CHOOSE i \in DOMAIN h :
             h[i].id = id /\ \A j \in DOMAIN h : h[j].id = id => i <= j
    ELSE 0

\* PreviousUserMessageIndex without the check after the loop: the index -1 the
\* loop ends with is used by slice as the index of the last message.
PreviousUserMessageIndexUnchecked(h, i) ==
    IF \E j \in 1 .. i : h[j].role = "user"
    THEN CHOOSE j \in 1 .. i :
             h[j].role = "user" /\ \A k \in 1 .. i : h[k].role = "user" => k <= j
    ELSE Len(h)

\* The loop of reprompt that walks back from fromIndex to a user message: the
\* index it stops at, 0 when it ran past the first message.
RECURSIVE PreviousUserMessageIndex(_, _)
PreviousUserMessageIndex(h, i) ==
    IF i < 1 THEN 0
    ELSE IF h[i].role = "user" THEN i
    ELSE PreviousUserMessageIndex(h, i - 1)

\* RemoveAll with the forEach lost: only the first message of the slice goes.
RemoveAllFirstOnly(h, slice) ==
    IF slice = << >> THEN h ELSE RemoveMessage(h, Head(slice).id)

\* messages.slice(from).forEach((m) => this.history.removeMessage(m))
RECURSIVE RemoveAll(_, _)
RemoveAll(h, slice) ==
    IF slice = << >> THEN h
    ELSE RemoveAll(RemoveMessage(h, Head(slice).id), Tail(slice))

\* SliceFrom that starts one message early: slice(i - 1).
SliceFromBefore(h, i) == IF i > 1 THEN SubSeq(h, i - 1, Len(h)) ELSE h

\* messages.slice(i): the messages from index i to the end.
SliceFrom(h, i) == SubSeq(h, i, Len(h))

\* RepromptContent with `||` for `??`: an empty newPrompt is not used.
RepromptContentOr(newPrompt, previousUserMessage) ==
    IF Truthy(newPrompt) THEN newPrompt
    ELSE IF Truthy(previousUserMessage.content)
         THEN previousUserMessage.content
         ELSE ""

\* The prompt reprompt issues: newPrompt ?? previousUserMessage.content ?? "".
RepromptContent(newPrompt, previousUserMessage) ==
    IF newPrompt # Undefined THEN newPrompt
    ELSE IF previousUserMessage.content # Undefined
         THEN previousUserMessage.content
         ELSE ""

\* typeof r === "string" ? r : JSON.stringify(r), on the values of the model.
RECURSIVE Digits(_)
Digits(n) ==
    LET d == <<"0", "1", "2", "3", "4", "5", "6", "7", "8", "9">>[(n % 10) + 1]
    IN  IF n < 10 THEN d ELSE Digits(n \div 10) \o d
Stringify(r) == IF r.t = "string" THEN r.s ELSE Digits(r.n)

\* -------------------------------------------------------------- errors

NoError == [kind |-> "none", categories |-> {}]
HookError == [kind |-> "HookError", categories |-> {}]
ErrorHookError == [kind |-> "ErrorHookError", categories |-> {}]
TransformError == [kind |-> "TransformError", categories |-> {}]
TransportError == [kind |-> "TransportError", categories |-> {}]
NotFoundError == [kind |-> "NotFoundError", categories |-> {}]
ModerationError(flags) == [kind |-> "ModerationError", categories |-> flags]

\* ------------------------------------------------------------------ state

VARIABLES
    config,     \* the ConversationConfig: apiKey, dry, disableModeration, and
                \* whether the last assignment of dry warned on the console
    history,    \* the ConversationHistory: the sequence of messages
    nextId,     \* the next fresh message id (uuid() never repeats)
    turns,      \* the number of calls started so far
    calls,      \* per call slot: the position of the call and what it did
    conversations,  \* web manager: the ids of the Conversations of the list
    activeId,       \* web manager: the id of the active Conversation, or Null
    rendered        \* web manager: the conversations and activeId of the last
                    \* render, which are what its callbacks read

vars == <<config, history, nextId, turns, calls, conversations, activeId, rendered>>

\* The state of the engine, and of the web manager.
engineVars == <<config, history, nextId, turns, calls>>
managerVars == <<conversations, activeId, rendered>>

\* activeId of a manager with no active Conversation.
Null == "<null>"

\* useState([]), useState(null): the manager as first rendered.
ManagerInit ==
    /\ conversations = << >>
    /\ activeId = Null
    /\ rendered = [conversations |-> << >>, activeId |-> Null]

\* A step of the engine is no step of the web manager.
ManagerIdle == UNCHANGED managerVars

\* A slot no call has used yet.
IdleCall ==
    [op |-> "none", pc |-> "idle",
     msg |-> 0,             \* id of the message the call added (0: none yet)
     name |-> "",           \* functionPrompt: the function name
     value |-> StrVal(""),  \* functionPrompt: the result being transformed
     transformed |-> StrVal(""),  \* functionPrompt: the transformed result
     target |-> 0,          \* reprompt: the id asked for
     newPrompt |-> Undefined,
     content |-> "",        \* the text of the message the call added
     before |-> << >>,      \* the history when the call began
     turnBefore |-> << >>,  \* the history just before the message was added
     modConfig |-> NoConfig,  \* the config moderateMessage read
     flagged |-> {},        \* the categories the moderation check returned
     snapshot |-> << >>,    \* the messages sent with the completion request
     log |-> << >>,         \* the hooks and requests of the call, in order
     hooks |-> << >>,       \* the plugin hooks that ran for the call, in order,
                            \* each with its plugin and outcome
     stream |-> FALSE,      \* the completion of the call is streamed
     chunks |-> << >>,      \* the chunks of the stream read so far
     response |-> NoMessage,  \* the assistant Message object being streamed
     errorHookFailed |-> FALSE, \* the error hook of the call failed
     err |-> NoError,       \* the error a stage of the turn raised
     thrown |-> NoError,    \* the error the caller received
     result |-> 0]          \* id of the assistant message returned

\* A call has settled when its promise is resolved or rejected.
Settled(c) == calls[c].pc \in {"idle", "returned", "threw"}

InFlight(c) == ~Settled(c)

SystemMessage == Message(1, "system", "ctx", "")

\* The histories a Conversation is constructed with (options.history): none,
\* the system message alone, two completed turns after the system message, and
\* a history without system message that begins with an assistant message and
\* holds a function message.
InitHistories ==
    { << >>,
      << SystemMessage >>,
      << SystemMessage, Message(2, "user", "a", ""), Message(3, "assistant", "r", ""),
         Message(4, "user", "b", ""), Message(5, "assistant", "r", "") >>,
      << Message(1, "assistant", "r", ""), Message(2, "user", "a", ""),
         Message(3, "function", "x", "f"), Message(4, "assistant", "r", "") >> }

Init ==
    /\ \E k \in ApiKeys \cup {Undefined}, d \in DryValues \cup {Undefined},
          m \in DisableModerationValues \cup {Undefined} :
           config = NewConversationConfig(k, d, m)
    /\ history \in InitHistories
    /\ nextId = Len(history) + 1
    /\ turns = 0
    /\ calls = [c \in Calls |-> IdleCall]
    /\ ManagerInit

\* ------------------------------------------ assignments to the config

\* No call is in flight.
Quiet == \A c \in Calls : Settled(c)

\* config.apiKey = k
AssignApiKey(k) ==
    /\ Quiet
    /\ config' = SetApiKey(config, k)
    /\ UNCHANGED <<history, nextId, turns, calls>>

\* config.dry = d
AssignDry(d) ==
    /\ Quiet
    /\ config' = SetDry(config, d)
    /\ UNCHANGED <<history, nextId, turns, calls>>

\* config.disableModeration = v
AssignDisableModeration(v) ==
    /\ Quiet
    /\ config' = [config EXCEPT !.disableModeration = v]
    /\ UNCHANGED <<history, nextId, turns, calls>>

\* ------------------------------------------------------ Conversation.ts

\* prompt behind a lock: it starts only when no call is in flight.
PromptSerialized(c, p) ==
    /\ Settled(c)
    /\ \A d \in {1, 2} : calls[d].pc \in {"idle", "returned", "threw"}
    /\ history' = AddMessage(history, Message(nextId, "user", p, ""))
    /\ nextId' = nextId + 1
    /\ turns' = turns + 1
    /\ calls' = [calls EXCEPT ![c] =
                     [IdleCall EXCEPT !.op = "prompt", !.pc = "onUserPrompt",
                                      !.msg = nextId, !.content = p,
                                      !.before = history, !.turnBefore = history,
                                      !.log = <<"addUserMessage">>]]
    /\ UNCHANGED config

\* prompt that puts its user message in front of the history (unshift).
PromptUnshift(c, p) ==
    /\ Settled(c)
    /\ history' = << Message(nextId, "user", p, "") >> \o history
    /\ nextId' = nextId + 1
    /\ turns' = turns + 1
    /\ calls' = [calls EXCEPT ![c] =
                     [IdleCall EXCEPT !.op = "prompt", !.pc = "onUserPrompt",
                                      !.msg = nextId, !.content = p,
                                      !.before = history, !.turnBefore = history,
                                      !.log = <<"addUserMessage">>]]
    /\ UNCHANGED config

\* prompt(prompt), up to its first await: the user message is added and the
\* onUserPrompt hooks are started.
Prompt(c, p) ==
    /\ Settled(c)
    /\ history' = AddMessage(history, Message(nextId, "user", p, ""))
    /\ nextId' = nextId + 1
    /\ turns' = turns + 1
    /\ calls' = [calls EXCEPT ![c] =
                     [IdleCall EXCEPT !.op = "prompt", !.pc = "onUserPrompt",
                                      !.msg = nextId, !.content = p,
                                      !.before = history, !.turnBefore = history,
                                      !.log = <<"addUserMessage">>]]
    /\ UNCHANGED config

\* await pluginService.onUserPrompt(userMessage): the hooks return or one fails.
OnUserPrompt(c) ==
    /\ calls[c].pc = "onUserPrompt"
    /\ \E ok \in BOOLEAN :
           calls' = [calls EXCEPT
                         ![c].log = Append(@, "onUserPrompt"),
                         ![c].err = IF ok THEN @ ELSE HookError,
                         ![c].pc = IF ok THEN "moderateMessage" ELSE "catch"]
    /\ UNCHANGED <<config, history, nextId, turns>>

\* catch (e) of prompt: await onUserPromptError(e); removeMessage(userMessage);
\* throw e. When the error hook fails, its error leaves the catch block and the
\* two statements after it do not run.
PromptCatch(c) ==
    /\ calls[c].pc = "catch"
    /\ calls[c].op \in {"prompt", "reprompt"}
    /\ \E ok \in BOOLEAN :
           IF ok
           THEN /\ history' = RemoveMessage(history, calls[c].msg)
                /\ calls' = [calls EXCEPT
                                 ![c].log = @ \o <<"onUserPromptError", "removeMessage">>,
                                 ![c].thrown = calls[c].err,
                                 ![c].pc = "threw"]
           ELSE /\ history' = history
                /\ calls' = [calls EXCEPT
                                 ![c].log = Append(@, "onUserPromptError"),
                                 ![c].errorHookFailed = TRUE,
                                 ![c].thrown = ErrorHookError,
                                 ![c].pc = "threw"]
    /\ UNCHANGED <<config, nextId, turns>>

\* await chatCompletionService.moderateMessage(message): nothing when moderation
\* is disabled. Otherwise the remote check gives the flagged categories: in
\* strict mode flagged categories raise a moderation error carrying them, in
\* soft mode they are written into message.flags.
ModerateMessage(c) ==
    /\ calls[c].pc = "moderateMessage"
    /\ IF ~isModerationEnabled(config)
       THEN /\ calls' = [calls EXCEPT ![c].modConfig = config,
                                      ![c].pc = "getAssistantResponse"]
            /\ history' = history
       ELSE \E flags \in ModerationResults :
                IF isModerationStrict(config) /\ flags # {}
                THEN /\ calls' = [calls EXCEPT
                                      ![c].modConfig = config,
                                      ![c].flagged = flags,
                                      ![c].log = Append(@, "moderationRequest"),
                                      ![c].err = ModerationError(flags),
                                      ![c].pc = "catch"]
                     /\ history' = history
                ELSE /\ calls' = [calls EXCEPT
                                      ![c].modConfig = config,
                                      ![c].flagged = flags,
                                      ![c].log = Append(@, "moderationRequest"),
                                      ![c].pc = "getAssistantResponse"]
                     /\ history' = IF isModerationSoft(config)
                                   THEN SetFlags(history, calls[c].msg, flags)
                                   ELSE history
    /\ UNCHANGED <<config, nextId, turns>>

\* The content of the latest message of the history ("" for an empty history).
LatestContent(h) == IF h = << >> THEN "" ELSE h[Len(h)].content

\* await chatCompletionService.getAssistantResponse(): in dry mode the response
\* mirrors the latest message and no request is made; otherwise the history is
\* sent to the remote service, which fails or answers. The assistant message is
\* added to the history and returned.
GetAssistantResponse(c) ==
    /\ calls[c].pc = "getAssistantResponse"
    /\ IF Truthy(config.dry)
       THEN /\ history' = AddMessage(history,
                              Message(nextId, "assistant", LatestContent(history), ""))
            /\ nextId' = nextId + 1
            /\ calls' = [calls EXCEPT ![c].result = nextId, ![c].pc = "returned"]
       ELSE \/ /\ calls' = [calls EXCEPT
                                ![c].log = Append(@, "completionRequest"),
                                ![c].snapshot = history,
                                ![c].err = TransportError,
                                ![c].pc = "catch"]
               /\ UNCHANGED <<history, nextId>>
            \/ \E r \in Responses :
                   /\ history' = AddMessage(history, Message(nextId, "assistant", r, ""))
                   /\ nextId' = nextId + 1
                   /\ calls' = [calls EXCEPT
                                    ![c].log = Append(@, "completionRequest"),
                                    ![c].snapshot = history,
                                    ![c].result = nextId,
                                    ![c].pc = "returned"]
    /\ UNCHANGED <<config, turns>>

\* reprompt(fromMessageOrId, newPrompt), up to the first await of the prompt it
\* calls: the target and its previous user message are looked up (an error is
\* thrown when either is missing), the messages from that user message on are
\* removed, and prompt(newPrompt ?? content) adds its user message.
Reprompt(c, id, newPrompt) ==
    /\ Settled(c)
    /\ turns' = turns + 1
    /\ LET messages == history
           fromIndex == FindIndex(messages, id)
           previousUserMessageIndex == PreviousUserMessageIndex(messages, fromIndex)
           call == [IdleCall EXCEPT !.op = "reprompt", !.target = id,
                                    !.newPrompt = newPrompt, !.before = history]
       IN  IF fromIndex = 0 \/ previousUserMessageIndex = 0
           THEN /\ calls' = [calls EXCEPT ![c] =
                                 [call EXCEPT !.thrown = NotFoundError, !.pc = "threw"]]
                /\ UNCHANGED <<history, nextId>>
           ELSE LET previousUserMessage == messages[previousUserMessageIndex]
                    truncated == RemoveAll(history,
                                     SliceFrom(messages, previousUserMessageIndex))
                    prompt == RepromptContent(newPrompt, previousUserMessage)
                IN  /\ history' = AddMessage(truncated,
                                      Message(nextId, "user", prompt, ""))
                    /\ nextId' = nextId + 1
                    /\ calls' = [calls EXCEPT ![c] =
                                     [call EXCEPT !.pc = "onUserPrompt",
                                                  !.msg = nextId, !.content = prompt,
                                                  !.turnBefore = truncated,
                                                  !.log = <<"addUserMessage">>]]
    /\ UNCHANGED config

\* functionPrompt(name, result), up to its first await: the plugins' transform
\* of the result is started.
FunctionPrompt(c, name, result) ==
    /\ Settled(c)
    /\ turns' = turns + 1
    /\ calls' = [calls EXCEPT ![c] =
                     [IdleCall EXCEPT !.op = "functionPrompt",
                                      !.pc = "transformFunctionResult",
                                      !.name = name, !.value = result,
                                      !.before = history]]
    /\ UNCHANGED <<config, history, nextId>>

\* transformFunctionResult awaited inside the try block: its failure is caught.
TransformFunctionResultInTry(c) ==
    /\ calls[c].pc = "transformFunctionResult"
    /\ \/ /\ calls' = [calls EXCEPT
                           ![c].log = Append(@, "transformFunctionResult"),
                           ![c].err = TransformError,
                           ![c].pc = "catch"]
          /\ UNCHANGED <<history, nextId>>
       \/ \E transformedResult \in {calls[c].value} \cup FunctionResults :
              /\ history' = AddMessage(history,
                                Message(nextId, "function",
                                        Stringify(transformedResult), calls[c].name))
              /\ nextId' = nextId + 1
              /\ calls' = [calls EXCEPT
                               ![c].log = @ \o <<"transformFunctionResult",
                                                 "addFunctionMessage">>,
                               ![c].msg = nextId,
                               ![c].transformed = transformedResult,
                               ![c].content = Stringify(transformedResult),
                               ![c].turnBefore = history,
                               ![c].pc = "onFunctionPrompt"]
    /\ UNCHANGED <<config, turns>>

\* await pluginService.transformFunctionResult(result) fails (the error reaches
\* the caller: the await is outside the try block), or gives the transformed
\* result, which is added as a function message, as text; then the
\* onFunctionPrompt hooks are started.
TransformFunctionResult(c) ==
    /\ calls[c].pc = "transformFunctionResult"
    /\ \/ /\ calls' = [calls EXCEPT
                           ![c].log = Append(@, "transformFunctionResult"),
                           ![c].thrown = TransformError,
                           ![c].pc = "threw"]
          /\ UNCHANGED <<history, nextId>>
       \/ \E transformedResult \in {calls[c].value} \cup FunctionResults :
              /\ history' = AddMessage(history,
                                Message(nextId, "function",
                                        Stringify(transformedResult), calls[c].name))
              /\ nextId' = nextId + 1
              /\ calls' = [calls EXCEPT
                               ![c].log = @ \o <<"transformFunctionResult",
                                                 "addFunctionMessage">>,
                               ![c].msg = nextId,
                               ![c].transformed = transformedResult,
                               ![c].content = Stringify(transformedResult),
                               ![c].turnBefore = history,
                               ![c].pc = "onFunctionPrompt"]
    /\ UNCHANGED <<config, turns>>

\* await pluginService.onFunctionPrompt(functionMessage)
OnFunctionPrompt(c) ==
    /\ calls[c].pc = "onFunctionPrompt"
    /\ \E ok \in BOOLEAN :
           calls' = [calls EXCEPT
                         ![c].log = Append(@, "onFunctionPrompt"),
                         ![c].err = IF ok THEN @ ELSE HookError,
                         ![c].pc = IF ok THEN "moderateMessage" ELSE "catch"]
    /\ UNCHANGED <<config, history, nextId, turns>>

\* catch (e) of functionPrompt: await onFunctionPromptError(e);
\* removeMessage(functionMessage); throw e.
FunctionPromptCatch(c) ==
    /\ calls[c].pc = "catch"
    /\ calls[c].op = "functionPrompt"
    /\ \E ok \in BOOLEAN :
           IF ok
           THEN /\ history' = RemoveMessage(history, calls[c].msg)
                /\ calls' = [calls EXCEPT
                                 ![c].log = @ \o <<"onFunctionPromptError", "removeMessage">>,
                                 ![c].thrown = calls[c].err,
                                 ![c].pc = "threw"]
           ELSE /\ history' = history
                /\ calls' = [calls EXCEPT
                                 ![c].log = Append(@, "onFunctionPromptError"),
                                 ![c].errorHookFailed = TRUE,
                                 ![c].thrown = ErrorHookError,
                                 ![c].pc = "threw"]
    /\ UNCHANGED <<config, nextId, turns>>

\* ------------------------------------------------------- specification

\* The ids reprompt is called with: of messages in the history, of messages
\* that were removed, and one (0) that no message ever had.
TargetIds == 0 .. (nextId - 1)

\* A further call may start: fewer than MaxTurns calls were started.
MayStart == turns < MaxTurns

\* One turn at a time: a call starts when no other call is in flight, as the
\* engine's callers are expected to use it, and the config is assigned between
\* turns.
Next ==
    \/ \E k \in ApiKeys : AssignApiKey(k) /\ ManagerIdle
    \/ \E d \in DryValues : AssignDry(d) /\ ManagerIdle
    \/ \E v \in DisableModerationValues : AssignDisableModeration(v) /\ ManagerIdle
    \/ \E c \in SeqCalls, p \in Prompts : MayStart /\ Prompt(c, p) /\ ManagerIdle
    \/ \E c \in SeqCalls, id \in TargetIds, np \in NewPrompts :
           MayStart /\ Reprompt(c, id, np) /\ ManagerIdle
    \/ \E c \in SeqCalls, n \in FunctionNames, r \in FunctionResults :
           MayStart /\ FunctionPrompt(c, n, r) /\ ManagerIdle
    \/ \E c \in SeqCalls : TransformFunctionResult(c) /\ ManagerIdle
    \/ \E c \in SeqCalls : OnUserPrompt(c) /\ ManagerIdle
    \/ \E c \in SeqCalls : OnFunctionPrompt(c) /\ ManagerIdle
    \/ \E c \in SeqCalls : ModerateMessage(c) /\ ManagerIdle
    \/ \E c \in SeqCalls : GetAssistantResponse(c) /\ ManagerIdle
    \/ \E c \in SeqCalls : PromptCatch(c) /\ ManagerIdle
    \/ \E c \in SeqCalls : FunctionPromptCatch(c) /\ ManagerIdle

Spec == Init /\ [][Next]_vars

\* ------------------------------------------------------ overlapping calls
\*
\* The engine has no lock: a call may start while another is in flight. The
\* actions below follow the collaborators of Conversation.ts through each of
\* their suspension points (every awaited plugin hook, the completion request
\* and its response, every chunk of a streamed response), so that the steps of
\* two calls interleave wherever the program allows it.

\* The hooks of one dispatch that have completed for call c, in order.
HooksRun(c, hook) == SelectSeq(calls[c].hooks, LAMBDA e : e.hook = hook)

\* The plugin whose hook the dispatch of call c is awaiting.
Awaited(c, hook) == PluginList[Len(HooksRun(c, hook)) + 1]

\* The dispatch settles with the hook that completes now: the hook failed, or
\* it was the hook of the last plugin.
DispatchSettles(c, hook, ok) == ~ok \/ Len(HooksRun(c, hook)) + 1 = Len(PluginList)

\* The record of a hook that completed.
HookRun(c, hook, ok) == [hook |-> hook, plugin |-> Awaited(c, hook), ok |-> ok]

\* Where a turn goes when its dispatch of onUserPrompt / onFunctionPrompt
\* settled, with the failure swallowed.
AfterPromptHooksSwallowed(ok) == "moderateMessage"

\* try { await pluginService.onUserPrompt(m); await moderateMessage(m); ... }
\* catch (e) { ... }: where a turn goes when the dispatch settled.
AfterPromptHooks(ok) == IF ok THEN "moderateMessage" ELSE "catch"

\* One hook of the dispatch `hook` (onUserPrompt, onFunctionPrompt) completes:
\* the next plugin's hook is started, or the dispatch settles.
PromptHook(c, hook) ==
    /\ calls[c].pc = hook
    /\ \E ok \in BOOLEAN :
           calls' = [calls EXCEPT
                         ![c].hooks = Append(@, HookRun(c, hook, ok)),
                         ![c].log = IF DispatchSettles(c, hook, ok)
                                    THEN Append(@, hook) ELSE @,
                         ![c].err = IF ok THEN @ ELSE HookError,
                         ![c].pc = IF DispatchSettles(c, hook, ok)
                                   THEN AfterPromptHooks(ok) ELSE @]
    /\ UNCHANGED <<config, history, nextId, turns>>

\* await pluginService.onUserPrompt(userMessage), one hook at a time.
OnUserPromptHook(c) == PromptHook(c, "onUserPrompt")

\* await pluginService.onFunctionPrompt(functionMessage), one hook at a time.
OnFunctionPromptHook(c) == PromptHook(c, "onFunctionPrompt")

\* The catch block with removeMessage ahead of the error hooks: the message of
\* the turn is removed when the first error hook completes.
ErrorHookAfterRemoval(c, hook) ==
    /\ calls[c].pc = "catch"
    /\ \E ok \in BOOLEAN :
           /\ history' = RemoveMessage(history, calls[c].msg)
           /\ IF ~DispatchSettles(c, hook, ok)
              THEN calls' = [calls EXCEPT ![c].hooks = Append(@, HookRun(c, hook, ok))]
              ELSE calls' = [calls EXCEPT
                                 ![c].hooks = Append(@, HookRun(c, hook, ok)),
                                 ![c].log = @ \o <<hook, "removeMessage">>,
                                 ![c].errorHookFailed = ~ok,
                                 ![c].thrown = IF ok THEN calls[c].err ELSE ErrorHookError,
                                 ![c].pc = "threw"]
    /\ UNCHANGED <<config, nextId, turns>>

\* One hook of the dispatch `hook` (onUserPromptError, onFunctionPromptError)
\* of the catch block completes. When the last one returned, the message of
\* the turn is removed and the error of the turn is thrown; when one fails, its
\* error leaves the catch block.
ErrorHook(c, hook) ==
    /\ calls[c].pc = "catch"
    /\ \E ok \in BOOLEAN :
           IF ~DispatchSettles(c, hook, ok)
           THEN /\ calls' = [calls EXCEPT ![c].hooks = Append(@, HookRun(c, hook, ok))]
                /\ history' = history
           ELSE IF ok
           THEN /\ history' = RemoveMessage(history, calls[c].msg)
                /\ calls' = [calls EXCEPT
                                 ![c].hooks = Append(@, HookRun(c, hook, ok)),
                                 ![c].log = @ \o <<hook, "removeMessage">>,
                                 ![c].thrown = calls[c].err,
                                 ![c].pc = "threw"]
           ELSE /\ history' = history
                /\ calls' = [calls EXCEPT
                                 ![c].hooks = Append(@, HookRun(c, hook, ok)),
                                 ![c].log = Append(@, hook),
                                 ![c].errorHookFailed = TRUE,
                                 ![c].thrown = ErrorHookError,
                                 ![c].pc = "threw"]
    /\ UNCHANGED <<config, nextId, turns>>

\* await pluginService.onUserPromptError(e), one hook at a time.
OnUserPromptErrorHook(c) ==
    /\ calls[c].op \in {"prompt", "reprompt"}
    /\ ErrorHook(c, "onUserPromptError")

\* await pluginService.onFunctionPromptError(e), one hook at a time.
OnFunctionPromptErrorHook(c) ==
    /\ calls[c].op = "functionPrompt"
    /\ ErrorHook(c, "onFunctionPromptError")

\* await pluginService.transformFunctionResult(result), one hook at a time:
\* each plugin receives the value the previous one gave. A hook that fails
\* ends the call; after the last hook the value is added as a function
\* message, as text, and the onFunctionPrompt hooks are started.
TransformFunctionResultHook(c) ==
    /\ calls[c].pc = "transformFunctionResult"
    /\ LET hook == "transformFunctionResult"
           received == IF HooksRun(c, hook) = << >>
                       THEN calls[c].value ELSE calls[c].transformed
       IN  \/ /\ calls' = [calls EXCEPT
                                ![c].hooks = Append(@, HookRun(c, hook, FALSE)),
                                ![c].log = Append(@, hook),
                                ![c].thrown = TransformError,
                                ![c].pc = "threw"]
              /\ UNCHANGED <<history, nextId>>
           \/ \E transformedResult \in {received} \cup FunctionResults :
                  IF ~DispatchSettles(c, hook, TRUE)
                  THEN /\ calls' = [calls EXCEPT
                                        ![c].hooks = Append(@, HookRun(c, hook, TRUE)),
                                        ![c].transformed = transformedResult]
                       /\ UNCHANGED <<history, nextId>>
                  ELSE /\ history' = AddMessage(history,
                                         Message(nextId, "function",
                                                 Stringify(transformedResult),
                                                 calls[c].name))
                       /\ nextId' = nextId + 1
                       /\ calls' = [calls EXCEPT
                                        ![c].hooks = Append(@, HookRun(c, hook, TRUE)),
                                        ![c].log = @ \o <<hook, "addFunctionMessage">>,
                                        ![c].msg = nextId,
                                        ![c].transformed = transformedResult,
                                        ![c].content = Stringify(transformedResult),
                                        ![c].turnBefore = history,
                                        ![c].pc = "onFunctionPrompt"]
    /\ UNCHANGED <<config, turns>>

\* The chunks of a streamed response, in arrival order.
Chunks == <<"Hel", "lo", "!">>

\* AppendChunk that puts the chunk in front of the content.
AppendChunkInFront(m, chunk) == [m EXCEPT !.content = chunk \o @]

\* message.content += chunk
AppendChunk(m, chunk) == [m EXCEPT !.content = @ \o chunk]

\* The history with the message of this id replaced (Messages are objects:
\* what is done to the object shows in the history that holds it).
UpdateMessage(h, m) == [i \in DOMAIN h |-> IF h[i].id = m.id THEN m ELSE h[i]]

\* getAssistantResponse() up to its request: in dry mode the response mirrors
\* the latest message; otherwise the messages of the history are read for the
\* request (streamed or not, as the options of the call say) and the request
\* is sent.
CompletionRequest(c) ==
    /\ calls[c].pc = "getAssistantResponse"
    /\ IF Truthy(config.dry)
       THEN /\ history' = AddMessage(history,
                              Message(nextId, "assistant", LatestContent(history), ""))
            /\ nextId' = nextId + 1
            /\ calls' = [calls EXCEPT ![c].result = nextId, ![c].pc = "returned"]
       ELSE /\ \E stream \in BOOLEAN :
                   calls' = [calls EXCEPT
                                 ![c].log = Append(@, "completionRequest"),
                                 ![c].snapshot = history,
                                 ![c].stream = stream,
                                 ![c].pc = "completionResponse"]
            /\ UNCHANGED <<history, nextId>>
    /\ UNCHANGED <<config, turns>>

\* The remote service fails, or answers: with the complete response, which is
\* added as the assistant message and returned, or with a stream, for which
\* the assistant message is created empty and streaming.
CompletionResponse(c) ==
    /\ calls[c].pc = "completionResponse"
    /\ \/ /\ calls' = [calls EXCEPT ![c].err = TransportError, ![c].pc = "catch"]
          /\ UNCHANGED <<history, nextId>>
       \/ /\ ~calls[c].stream
          /\ \E r \in Responses :
                 LET m == Message(nextId, "assistant", r, "")
                 IN  /\ history' = AddMessage(history, m)
                     /\ calls' = [calls EXCEPT ![c].result = nextId,
                                               ![c].response = m,
                                               ![c].pc = "returned"]
          /\ nextId' = nextId + 1
       \/ /\ calls[c].stream
          /\ LET m == [Message(nextId, "assistant", "", "") EXCEPT !.streaming = TRUE]
             IN  /\ history' = AddMessage(history, m)
                 /\ calls' = [calls EXCEPT ![c].result = nextId,
                                           ![c].response = m,
                                           ![c].pc = "streaming"]
          /\ nextId' = nextId + 1
    /\ UNCHANGED <<config, turns>>

\* The next chunk of the stream arrives and is appended to the content of the
\* assistant message, or the stream ends and the message stops streaming.
StreamChunk(c) ==
    /\ calls[c].pc = "streaming"
    /\ LET read == Len(calls[c].chunks)
           m == IF read < Len(Chunks)
                THEN AppendChunk(calls[c].response, Chunks[read + 1])
                ELSE [calls[c].response EXCEPT !.streaming = FALSE]
       IN  /\ history' = UpdateMessage(history, m)
           /\ calls' = [calls EXCEPT
                            ![c].response = m,
                            ![c].chunks = IF read < Len(Chunks)
                                          THEN Append(@, Chunks[read + 1]) ELSE @,
                            ![c].pc = IF read < Len(Chunks) THEN @ ELSE "returned"]
    /\ UNCHANGED <<config, nextId, turns>>

\* getChatCompletionResponse as a turn would run it: moderation first.
GetChatCompletionResponseModerated(c) ==
    /\ Settled(c)
    /\ turns' = turns + 1
    /\ calls' = [calls EXCEPT ![c] =
                     [IdleCall EXCEPT !.op = "getChatCompletionResponse",
                                      !.pc = "moderateMessage",
                                      !.before = history, !.turnBefore = history]]
    /\ UNCHANGED <<config, history, nextId>>

\* getChatCompletionResponse(...args): the call is handed to the completion
\* service as it is, with no message added, no hook, no moderation and no try
\* block around it. The service runs up to its request: in dry mode the
\* response mirrors the latest message, otherwise the messages of the history
\* are read and the request is sent.
GetChatCompletionResponse(c) ==
    /\ Settled(c)
    /\ turns' = turns + 1
    /\ IF Truthy(config.dry)
       THEN /\ history' = AddMessage(history,
                              Message(nextId, "assistant", LatestContent(history), ""))
            /\ nextId' = nextId + 1
            /\ calls' = [calls EXCEPT ![c] =
                             [IdleCall EXCEPT !.op = "getChatCompletionResponse",
                                              !.pc = "returned",
                                              !.before = history, !.turnBefore = history,
                                              !.result = nextId]]
       ELSE /\ \E stream \in BOOLEAN :
                   calls' = [calls EXCEPT ![c] =
                                 [IdleCall EXCEPT !.op = "getChatCompletionResponse",
                                                  !.pc = "manualResponse",
                                                  !.before = history, !.turnBefore = history,
                                                  !.log = <<"completionRequest">>,
                                                  !.snapshot = history,
                                                  !.stream = stream]]
            /\ UNCHANGED <<history, nextId>>
    /\ UNCHANGED config

\* The remote service fails or answers a manual request. The failure is the
\* rejection of the promise getChatCompletionResponse returned: there is no
\* catch block on the way, and the history stays as it is. An answer is added
\* as the assistant message (empty and streaming for a stream).
ManualCompletionResponse(c) ==
    /\ calls[c].pc = "manualResponse"
    /\ \/ /\ calls' = [calls EXCEPT ![c].thrown = TransportError, ![c].pc = "threw"]
          /\ UNCHANGED <<history, nextId>>
       \/ /\ ~calls[c].stream
          /\ \E r \in Responses :
                 LET m == Message(nextId, "assistant", r, "")
                 IN  /\ history' = AddMessage(history, m)
                     /\ calls' = [calls EXCEPT ![c].result = nextId,
                                               ![c].response = m,
                                               ![c].pc = "returned"]
          /\ nextId' = nextId + 1
       \/ /\ calls[c].stream
          /\ LET m == [Message(nextId, "assistant", "", "") EXCEPT !.streaming = TRUE]
             IN  /\ history' = AddMessage(history, m)
                 /\ calls' = [calls EXCEPT ![c].result = nextId,
                                           ![c].response = m,
                                           ![c].pc = "streaming"]
          /\ nextId' = nextId + 1
    /\ UNCHANGED <<config, turns>>

\* The Conversations whose calls are followed hook by hook and chunk by chunk:
\* with a credential and live (dry = false), in each moderation mode, with no
\* history or with one completed turn after the system message.
StepHistories ==
    { << >>,
      << SystemMessage, Message(2, "user", "a", ""), Message(3, "assistant", "r", "") >> }

InitSteps ==
    /\ \E m \in DisableModerationValues :
           config = NewConversationConfig("sk", "false", m)
    /\ history \in StepHistories
    /\ nextId = Len(history) + 1
    /\ turns = 0
    /\ calls = [c \in Calls |-> IdleCall]
    /\ ManagerInit

\* One turn at a time, each hook of a dispatch and each chunk of a stream a
\* step of its own.
NextSteps ==
    \/ \E c \in SeqCalls, p \in Prompts : MayStart /\ Prompt(c, p) /\ ManagerIdle
    \/ \E c \in SeqCalls, id \in Ids(history), np \in NewPrompts :
           MayStart /\ Reprompt(c, id, np) /\ ManagerIdle
    \/ \E c \in SeqCalls, n \in FunctionNames, r \in FunctionResults :
           MayStart /\ FunctionPrompt(c, n, r) /\ ManagerIdle
    \/ \E c \in SeqCalls : MayStart /\ GetChatCompletionResponse(c) /\ ManagerIdle
    \/ \E c \in SeqCalls : ManualCompletionResponse(c) /\ ManagerIdle
    \/ \E c \in SeqCalls : TransformFunctionResultHook(c) /\ ManagerIdle
    \/ \E c \in SeqCalls : OnUserPromptHook(c) /\ ManagerIdle
    \/ \E c \in SeqCalls : OnFunctionPromptHook(c) /\ ManagerIdle
    \/ \E c \in SeqCalls : ModerateMessage(c) /\ ManagerIdle
    \/ \E c \in SeqCalls : CompletionRequest(c) /\ ManagerIdle
    \/ \E c \in SeqCalls : CompletionResponse(c) /\ ManagerIdle
    \/ \E c \in SeqCalls : StreamChunk(c) /\ ManagerIdle
    \/ \E c \in SeqCalls : OnUserPromptErrorHook(c) /\ ManagerIdle
    \/ \E c \in SeqCalls : OnFunctionPromptErrorHook(c) /\ ManagerIdle

SpecSteps == InitSteps /\ [][NextSteps]_vars

\* The Conversations of the overlapping calls: with a credential and live,
\* moderation disabled, with no history or with one completed turn after the
\* system message.
InitOverlap ==
    /\ config = NewConversationConfig("sk", "false", "true")
    /\ history \in StepHistories
    /\ nextId = Len(history) + 1
    /\ turns = 0
    /\ calls = [c \in Calls |-> IdleCall]
    /\ ManagerInit

\* Slot c may take a call: each slot holds one call, the first call in slot 1.
Free(c) == calls[c].pc = "idle" /\ (c = 1 \/ calls[1].pc # "idle")

\* Two calls, the second started at any moment of the first or after it. A
\* dispatch of hooks does not touch the history, so it is one step here; the
\* completion is followed through its request, its response and the chunks of
\* its stream.
NextOverlap ==
    \/ \E c \in Calls, p \in Prompts : Free(c) /\ Prompt(c, p) /\ ManagerIdle
    \/ \E c \in Calls, id \in Ids(history), np \in {Undefined, "n"} :
           Free(c) /\ Reprompt(c, id, np) /\ ManagerIdle
    \/ \E c \in Calls, n \in FunctionNames, r \in FunctionResults :
           Free(c) /\ FunctionPrompt(c, n, r) /\ ManagerIdle
    \/ \E c \in Calls : TransformFunctionResult(c) /\ ManagerIdle
    \/ \E c \in Calls : OnUserPrompt(c) /\ ManagerIdle
    \/ \E c \in Calls : OnFunctionPrompt(c) /\ ManagerIdle
    \/ \E c \in Calls : ModerateMessage(c) /\ ManagerIdle
    \/ \E c \in Calls : CompletionRequest(c) /\ ManagerIdle
    \/ \E c \in Calls : CompletionResponse(c) /\ ManagerIdle
    \/ \E c \in Calls : StreamChunk(c) /\ ManagerIdle
    \/ \E c \in Calls : PromptCatch(c) /\ ManagerIdle
    \/ \E c \in Calls : FunctionPromptCatch(c) /\ ManagerIdle

SpecOverlap == InitOverlap /\ [][NextOverlap]_vars

\* ------------------------------------------- web conversation manager
\*
\* The ConversationManagerProvider of the web package keeps the list of
\* Conversations and the id of the active one in React state. Its callbacks
\* are closures of the last render: they read the conversations and the
\* activeId that render saw, while setConversations((c) => ...) updates the
\* current list. A render follows every state update, but the callbacks that
\* one event handler calls all run before it.

\* Ids of the Conversations a client adds, activates or removes.
ManagerIds == {"c1", "c2", "c3"}

\* The ids of the Conversations of a list.
ListedIds(list) == {list[i] : i \in DOMAIN list}

\* A step of the web manager is no step of the engine.
EngineIdle == UNCHANGED engineVars

\* The component renders: its callbacks are created anew (useCallback with
\* conversations, activeId in their dependencies) and read the current state.
Render ==
    /\ rendered # [conversations |-> conversations, activeId |-> activeId]
    /\ rendered' = [conversations |-> conversations, activeId |-> activeId]
    /\ UNCHANGED <<conversations, activeId>>

\* addConversation(conversation): setConversations((c) => [...c, new]). The new
\* Conversation has the id of its parameters, or a fresh one; it is not in the
\* list yet.
AddConversation(id) ==
    /\ id \notin ListedIds(conversations)
    /\ conversations' = Append(conversations, id)
    /\ UNCHANGED <<activeId, rendered>>

\* What setActiveConversation(id, force) hands to setActiveId, `list` being the
\* conversations its closure holds: id itself when forced, null for a falsy id
\* or an id that conversations.find does not find, id otherwise.
ActiveIdFor(id, force, list) ==
    IF force THEN id
    ELSE IF ~Truthy(id) \/ id = Null THEN Null
    ELSE IF id \notin ListedIds(list) THEN Null
    ELSE id

\* setActiveConversation(id, force = false)
SetActiveConversation(id, force) ==
    /\ activeId' = ActiveIdFor(id, force, rendered.conversations)
    /\ UNCHANGED <<conversations, rendered>>

\* removeConversation(id): setConversations((c) => c.filter(... !== id)), then
\* setActiveConversation(activeId), with the activeId of the closure and, in
\* setActiveConversation, the conversations of the closure.
RemoveConversation(id) ==
    /\ conversations' = SelectSeq(conversations, LAMBDA c : c # id)
    /\ activeId' = ActiveIdFor(rendered.activeId, FALSE, rendered.conversations)
    /\ UNCHANGED rendered

\* The manager of a page with one fresh Conversation engine, which no step of
\* the manager touches.
InitManager ==
    /\ config = NewConversationConfig(Undefined, Undefined, Undefined)
    /\ history = << >>
    /\ nextId = 1
    /\ turns = 0
    /\ calls = [c \in Calls |-> IdleCall]
    /\ ManagerInit

\* Any sequence of addConversation, non-forced setActiveConversation and
\* removeConversation, with a render after any of them.
NextManager ==
    \/ Render /\ EngineIdle
    \/ \E id \in ManagerIds : AddConversation(id) /\ EngineIdle
    \/ \E id \in ManagerIds \cup {Null} : SetActiveConversation(id, FALSE) /\ EngineIdle
    \/ \E id \in ManagerIds : RemoveConversation(id) /\ EngineIdle

SpecManager == InitManager /\ [][NextManager]_vars

\* ------------------------------------------------------- serialization

\* Ids of Conversations; FreshId is what uuid() gives a Conversation that is
\* constructed without an id.
ConversationIds == {"c1", "c2"}
FreshId == "uuid"

\* What getPluginsData() gives: for each plugin of the pipeline, its data.
PluginsData ==
    { [n \in {"g1", "g2", "p1"} |-> ""],
      [n \in {"g1", "g2", "p1"} |-> IF n = "p1" THEN "t" ELSE "s"] }

\* config.toJSON(): the parameters of the config.
ConfigToJSON(cfg) ==
    [apiKey |-> cfg.apiKey, dry |-> cfg.dry, disableModeration |-> cfg.disableModeration]

\* message.toJSON(), and the Message made of it.
MessageToJSON(m) ==
    [id |-> m.id, role |-> m.role, content |-> m.content, name |-> m.name,
     flags |-> m.flags]
MessageFromJSON(j) == [Message(j.id, j.role, j.content, j.name) EXCEPT !.flags = j.flags]

\* history.toJSON(), and the messages a ConversationHistory is constructed
\* with.
HistoryToJSON(h) == [i \in DOMAIN h |-> MessageToJSON(h[i])]
HistoryFromJSON(js) == [i \in DOMAIN js |-> MessageFromJSON(js[i])]

\* conversationSchema.parse(json): the keys of the schema, validated.
SchemaParse(json) ==
    [id |-> json.id, config |-> json.config, history |-> json.history,
     pluginsData |-> json.pluginsData]

\* pluginService.transformConversationJson(json) when no plugin defines the
\* transform: the json goes through the pipe as it is.
transformConversationJson(json) == json

\* The constructor that does not read options.id.
NewConversationFreshId(options) ==
    [id |-> FreshId,
     plugins |-> globalPlugins \o OrDefault(options.plugins, << >>),
     config |-> NewConversationConfig(options.config.apiKey, options.config.dry,
                                      options.config.disableModeration),
     history |-> HistoryFromJSON(options.history),
     pluginsData |-> options.pluginsData]

\* constructor(options): the id (uuid() by default), the plugin service with
\* the global plugins and the plugins option ([] by default), the config and
\* the history made of the options, and pluginsData, which is handed to onInit.
NewConversation(options) ==
    [id |-> OrDefault(options.id, FreshId),
     plugins |-> globalPlugins \o OrDefault(options.plugins, << >>),
     config |-> NewConversationConfig(options.config.apiKey, options.config.dry,
                                      options.config.disableModeration),
     history |-> HistoryFromJSON(options.history),
     pluginsData |-> options.pluginsData]

\* Conversation.fromJSON(json, plugins)
fromJSON(json, pluginsParam) ==
    LET conversationJson == SchemaParse(json)
    IN  NewConversation([id |-> conversationJson.id,
                         config |-> conversationJson.config,
                         history |-> conversationJson.history,
                         pluginsData |-> conversationJson.pluginsData,
                         plugins |-> pluginsParam])

\* conversation.toJSON()
toJSON(c) ==
    LET json == [id |-> c.id,
                 config |-> ConfigToJSON(c.config),
                 history |-> HistoryToJSON(c.history),
                 pluginsData |-> c.pluginsData]
    IN  SchemaParse(transformConversationJson(json))

\* The Conversation of the model, with an id and the data of its plugins.
ThisConversation(id, data) ==
    [id |-> id, plugins |-> PluginList, config |-> config, history |-> history,
     pluginsData |-> data]

\* ====================================================================
\* Properties
\* ====================================================================

\* The turn of call c failed after its message was added: a stage of the try
\* block (hook, moderation, completion) raised an error and the call settled.
TurnFailed(c) == calls[c].pc = "threw" /\ calls[c].err # NoError

\* C1: a prompt or functionPrompt turn that fails after its message was
\* inserted leaves the history as long as it was before the call, and the
\* message the call added is no longer in the history.
C1_RollbackRestoresLength ==
    \A c \in Calls :
        TurnFailed(c) =>
            /\ Len(history) = Len(calls[c].turnBefore)
            /\ calls[c].msg \notin Ids(history)

\* C2: when a turn fails and the error hook (onUserPromptError,
\* onFunctionPromptError) itself fails, the message the turn added is still
\* removed from the history.
C2_ErrorHookDoesNotBlockRollback ==
    \A c \in Calls :
        (TurnFailed(c) /\ calls[c].errorHookFailed) =>
            calls[c].msg \notin Ids(history)

\* C3: when a turn fails in the hook, moderation or completion stage, the
\* caller receives the error that stage raised, whatever the error hook does.
C3_CallerReceivesOriginalError ==
    \A c \in Calls :
        TurnFailed(c) => calls[c].thrown = calls[c].err

\* What fails in C1 and C3 is the failing error hook alone: when the error hook
\* returns, the history is the one before the message was added and the caller
\* receives the stage's error.
RollbackWhenErrorHookReturns ==
    \A c \in Calls :
        (TurnFailed(c) /\ ~calls[c].errorHookFailed) =>
            /\ history = calls[c].turnBefore
            /\ calls[c].thrown = calls[c].err

\* The moderation mode moderateMessage found, read off the fields of the config.
StrictAt(c) ==
    /\ calls[c].modConfig.apiKey \notin {"", Undefined}
    /\ calls[c].modConfig.disableModeration = "false"

SoftAt(c) ==
    /\ calls[c].modConfig.apiKey \notin {"", Undefined}
    /\ calls[c].modConfig.disableModeration = "soft"

\* The turn of call c is a user prompt (of prompt, or of the prompt reprompt
\* issues) that went through moderateMessage.
UserTurnModerated(c) ==
    /\ calls[c].op \in {"prompt", "reprompt"}
    /\ calls[c].pc \in {"getAssistantResponse", "catch", "returned", "threw"}
    /\ calls[c].modConfig # NoConfig

\* C5: in strict moderation a prompt whose user message is flagged fails with a
\* moderation error carrying the flagged categories, issues no completion
\* request, and leaves the history unchanged.
C5_StrictFlaggedPromptFails ==
    \A c \in Calls :
        (UserTurnModerated(c) /\ StrictAt(c) /\ calls[c].flagged # {}) =>
            /\ "completionRequest" \notin {calls[c].log[i] : i \in DOMAIN calls[c].log}
            /\ calls[c].pc # "returned"
            /\ calls[c].pc = "threw" =>
                   /\ calls[c].thrown = ModerationError(calls[c].flagged)
                   /\ history = calls[c].turnBefore

\* The part of C5 the code keeps: the moderation error carrying the flagged
\* categories is raised, no completion is requested, and the turn does not
\* return; the history is unchanged when the error hook returns.
StrictFlaggedRaisesModerationError ==
    \A c \in Calls :
        (UserTurnModerated(c) /\ StrictAt(c) /\ calls[c].flagged # {}) =>
            /\ "completionRequest" \notin {calls[c].log[i] : i \in DOMAIN calls[c].log}
            /\ calls[c].pc \in {"catch", "threw"}
            /\ calls[c].err = ModerationError(calls[c].flagged)
            /\ (calls[c].pc = "threw" /\ ~calls[c].errorHookFailed) =>
                   /\ calls[c].thrown = ModerationError(calls[c].flagged)
                   /\ history = calls[c].turnBefore

\* The events a call logged.
Logged(c) == {calls[c].log[i] : i \in DOMAIN calls[c].log}

\* The index of the message with this id (ids are unique), for an id of h.
IndexOf(h, id) == CHOOSE i \in DOMAIN h : h[i].id = id

\* The index of the nearest user message at or before index i.
NearestUserAtOrBefore(h, i) ==
    CHOOSE j \in 1 .. i :
        /\ h[j].role = "user"
        /\ \A k \in 1 .. i : h[k].role = "user" => k <= j

\* Call c is a reprompt whose target and previous user message were found, so
\* that it truncated the history and issued its prompt.
RepromptIssued(c) == calls[c].op = "reprompt" /\ calls[c].msg # 0

\* The messages of the history before the user message a reprompt removes.
KeptByReprompt(c) ==
    LET h == calls[c].before
    IN  SubSeq(h, 1, NearestUserAtOrBefore(h, IndexOf(h, calls[c].target)) - 1)

\* The user message a reprompt removes.
RemovedUserMessage(c) ==
    LET h == calls[c].before
    IN  h[NearestUserAtOrBefore(h, IndexOf(h, calls[c].target))]

\* C4, as claimed: when reprompt fails in the re-issued turn, the history is
\* exactly the one before the reprompt call began.
C4_FailedRepromptRestoresHistory ==
    \A c \in Calls :
        (RepromptIssued(c) /\ TurnFailed(c)) => history = calls[c].before

\* C4, amended: when reprompt fails in the re-issued turn, the messages it
\* removed are not restored. The history is the messages that preceded the
\* removed user message, unchanged and in order, followed by nothing when
\* onUserPromptError returned, and by the pending re-issued user message when
\* onUserPromptError itself failed.
C4_FailedRepromptKeepsTruncation ==
    \A c \in Calls :
        (RepromptIssued(c) /\ TurnFailed(c)) =>
            LET kept == KeptByReprompt(c)
                h == calls[c].before
            IN  /\ \A i \in (Len(kept) + 1) .. Len(h) : h[i].id \notin Ids(history)
                /\ IF calls[c].errorHookFailed
                   THEN /\ Len(history) = Len(kept) + 1
                        /\ SubSeq(history, 1, Len(kept)) = kept
                        /\ history[Len(history)].id = calls[c].msg
                        /\ history[Len(history)].role = "user"
                        /\ history[Len(history)].content = calls[c].content
                   ELSE history = kept

\* A reprompt of the assistant message of the second turn failed in the
\* re-issued turn, and the history is the first turn alone.
C4_Witness ==
    \E c \in Calls :
        /\ RepromptIssued(c) /\ TurnFailed(c) /\ ~calls[c].errorHookFailed
        /\ Len(calls[c].before) = 5 /\ calls[c].target = 5
        /\ history = SubSeq(calls[c].before, 1, 3)

\* The message call c added, as it is when its flags are the given ones.
AddedUserMessage(c, flags) ==
    [Message(calls[c].msg, "user", calls[c].content, "") EXCEPT !.flags = flags]

\* C6: in soft moderation the remote check is called, and a prompt whose user
\* message is flagged raises no moderation failure: the flagged categories are
\* written into the message's flags, the turn goes on to the completion (which
\* is requested from the remote service unless the run is dry), and when the
\* completion answers, the turn returns with the flagged user message kept in
\* the history, followed by the assistant message.
C6_SoftFlaggedPromptCompletes ==
    \A c \in Calls :
        (UserTurnModerated(c) /\ SoftAt(c)) =>
            /\ "moderationRequest" \in Logged(c)
            /\ calls[c].flagged # {} =>
                   /\ calls[c].err.kind # "ModerationError"
                   /\ \A i \in DOMAIN history :
                          history[i].id = calls[c].msg =>
                              history[i].flags = calls[c].flagged
                   /\ calls[c].pc \in {"catch", "threw"} =>
                          /\ calls[c].err = TransportError
                          /\ "completionRequest" \in Logged(c)
                   /\ calls[c].pc = "returned" =>
                          /\ calls[c].modConfig.dry = "true"
                                 \/ "completionRequest" \in Logged(c)
                          /\ Len(history) = Len(calls[c].turnBefore) + 2
                          /\ SubSeq(history, 1, Len(calls[c].turnBefore))
                                 = calls[c].turnBefore
                          /\ history[Len(history) - 1]
                                 = AddedUserMessage(c, calls[c].flagged)
                          /\ history[Len(history)].id = calls[c].result
                          /\ history[Len(history)].role = "assistant"

\* A prompt in soft moderation was flagged, the completion was requested and
\* answered, and the user message is in the history with its flags.
C6_Witness ==
    \E c \in Calls :
        /\ calls[c].op = "prompt" /\ calls[c].pc = "returned"
        /\ SoftAt(c) /\ calls[c].flagged = {"hate"}
        /\ "completionRequest" \in Logged(c)
        /\ \E i \in DOMAIN history :
               history[i].id = calls[c].msg /\ history[i].flags = {"hate"}

\* C7: isModerationStrict holds exactly with a credential and disableModeration
\* false, isModerationSoft exactly with a credential and disableModeration
\* "soft", isModerationEnabled exactly when one of them holds; without a
\* credential moderation is disabled, and strict and soft never hold together.
C7_ModerationTriState ==
    LET credential == config.apiKey # ""
        strict == credential /\ config.disableModeration = "false"
        soft == credential /\ config.disableModeration = "soft"
    IN  /\ isModerationStrict(config) <=> strict
        /\ isModerationSoft(config) <=> soft
        /\ isModerationEnabled(config) <=> (strict \/ soft)
        /\ ~credential => ~isModerationEnabled(config)
        /\ ~(isModerationStrict(config) /\ isModerationSoft(config))

\* A config with a credential and disableModeration "soft": soft, not strict.
C7_Witness ==
    /\ config.apiKey = "sk" /\ config.disableModeration = "soft"
    /\ isModerationSoft(config) /\ ~isModerationStrict(config)
    /\ isModerationEnabled(config)

\* C8: after construction and any assignments to apiKey and dry, dry is true
\* whenever no credential is configured; constructing with no credential and
\* dry unset gives dry = true.
C8_DryForcedWithoutCredential ==
    /\ config.apiKey = "" => config.dry = "true"
    /\ \A m \in DisableModerationValues \cup {Undefined} :
           NewConversationConfig(Undefined, Undefined, m).dry = "true"

\* No credential is configured and the last assignment of dry asked for a
\* falsy value, which was replaced by true (with the console warning).
C8_Witness == config.apiKey = "" /\ config.dry = "true" /\ config.warned

C10_RepromptUnknownId ==
    \A c \in Calls :
        (calls[c].op = "reprompt" /\ calls[c].target \notin Ids(calls[c].before)) =>
            /\ calls[c].pc = "threw"
            /\ calls[c].thrown = NotFoundError
            /\ history = calls[c].before
            /\ calls[c].log = << >>
            /\ calls[c].msg = 0

\* reprompt was called on a history of five messages with an id none of them
\* has, and failed.
C10_Witness ==
    \E c \in Calls :
        /\ calls[c].op = "reprompt" /\ calls[c].pc = "threw"
        /\ Len(calls[c].before) = 5
        /\ calls[c].target \notin Ids(calls[c].before)
        /\ history = calls[c].before

\* The target of the reprompt of call c is in the history the call began with,
\* and no message at or before it has the role user.
TargetWithoutUser(c) ==
    LET h == calls[c].before
    IN  /\ calls[c].op = "reprompt"
        /\ calls[c].target \in Ids(h)
        /\ \A j \in 1 .. IndexOf(h, calls[c].target) : h[j].role # "user"

\* C11: reprompt on a target with no user message at or before it (the system
\* message, or a message that precedes every user message) fails with a
\* not-found error and removes no message: the history is the one the call
\* began with, and no message was added and no hook or request was made.
C11_RepromptWithoutPreviousUser ==
    \A c \in Calls :
        TargetWithoutUser(c) =>
            /\ calls[c].pc = "threw"
            /\ calls[c].thrown = NotFoundError
            /\ history = calls[c].before
            /\ calls[c].msg = 0
            /\ calls[c].log = << >>

\* reprompt of the system message of [sys, user1, asst1, user2, asst2] failed
\* and the five messages are still there.
C11_Witness ==
    \E c \in Calls :
        /\ TargetWithoutUser(c) /\ calls[c].pc = "threw"
        /\ Len(calls[c].before) = 5
        /\ calls[c].before[1].role = "system" /\ calls[c].target = 1
        /\ calls[c].thrown = NotFoundError
        /\ history = calls[c].before

\* The system messages of a history, each with its index.
SystemMessages(h) == {<<i, h[i]>> : i \in {j \in DOMAIN h : h[j].role = "system"}}

\* C12: in every state reached by prompt, functionPrompt and reprompt calls,
\* returned or failed, the history holds at most one system message, and the
\* one it holds is the first message; no step of a turn adds, moves, changes or
\* removes the system message.
C12_SystemMessageFirstAndOnly ==
    /\ [](/\ Cardinality(SystemMessages(history)) <= 1
          /\ \A sm \in SystemMessages(history) : sm[1] = 1)
    /\ [][SystemMessages(history') = SystemMessages(history)]_vars

\* reprompt(user1, "n") on [sys, user1, asst1, user2, asst2] removed the four
\* messages after the system message, its turn failed and was rolled back: the
\* system message alone is left.
C12_Witness ==
    \E c \in Calls :
        /\ RepromptIssued(c) /\ calls[c].pc = "threw"
        /\ Len(calls[c].before) = 5 /\ calls[c].target = 2
        /\ calls[c].before[1] = SystemMessage
        /\ history = << SystemMessage >>

\* C13: a prompt that returns gives a message of the history whose role is
\* assistant, and the history is the history before the call followed by the
\* new user message (with the prompt as content) and then that assistant
\* message.
C13_PromptAppendsUserThenAssistant ==
    \A c \in Calls :
        (calls[c].op = "prompt" /\ calls[c].pc = "returned") =>
            LET n == Len(history)
                b == calls[c].before
            IN  /\ n = Len(b) + 2
                /\ SubSeq(history, 1, Len(b)) = b
                /\ history[n - 1].id = calls[c].msg
                /\ history[n - 1].role = "user"
                /\ history[n - 1].content = calls[c].content
                /\ history[n].id = calls[c].result
                /\ history[n].role = "assistant"
                /\ calls[c].msg \notin Ids(b) /\ calls[c].result \notin Ids(b)

\* prompt("p") on [sys, user1, asst1, user2, asst2] returned after a completion
\* request: seven messages, the last two the new user and assistant messages.
C13_Witness ==
    \E c \in Calls :
        /\ calls[c].op = "prompt" /\ calls[c].pc = "returned"
        /\ "completionRequest" \in Logged(c)
        /\ Len(calls[c].before) = 5 /\ Len(history) = 7
        /\ history[6].role = "user" /\ history[6].content = "p"
        /\ history[7].role = "assistant" /\ history[7].id = calls[c].result

\* The place of an event in the order of the stages of functionPrompt.
FunctionStageRank(e) ==
    CASE e = "transformFunctionResult" -> 1
      [] e = "addFunctionMessage" -> 2
      [] e = "onFunctionPrompt" -> 3
      [] e = "moderationRequest" -> 4
      [] e = "completionRequest" -> 5
      [] e = "onFunctionPromptError" -> 6
      [] e = "removeMessage" -> 7
      [] OTHER -> 0

\* The stages of functionPrompt before its catch block: the result goes
\* through transformFunctionResult first, the transformed value is added as a
\* function message carrying the name, with the value itself as content when
\* it is a string and its JSON text otherwise, and onFunctionPrompt, the
\* moderation request and the completion request come after that, in this
\* order.
FunctionPromptStagesInOrder(c) ==
    LET log == calls[c].log
    IN  /\ \A i \in DOMAIN log : FunctionStageRank(log[i]) > 0
        /\ \A i, j \in DOMAIN log :
               i < j => FunctionStageRank(log[i]) < FunctionStageRank(log[j])
        /\ \A i \in DOMAIN log :
               FunctionStageRank(log[i]) \in 2 .. 3 =>
                   /\ i > 1
                   /\ FunctionStageRank(log[i - 1]) = FunctionStageRank(log[i]) - 1
        /\ \A i \in DOMAIN log :
               FunctionStageRank(log[i]) \in 4 .. 5 => "onFunctionPrompt" \in Logged(c)
        /\ calls[c].msg # 0 <=> "addFunctionMessage" \in Logged(c)
        /\ calls[c].msg # 0 =>
               /\ calls[c].msg \notin Ids(calls[c].before)
               /\ calls[c].transformed = StrVal("x") => calls[c].content = "x"
               /\ calls[c].transformed = NumVal(1) => calls[c].content = "1"
               /\ calls[c].pc \notin {"threw"} =>
                      \E i \in DOMAIN history :
                          /\ history[i].id = calls[c].msg
                          /\ history[i].role = "function"
                          /\ history[i].name = calls[c].name
                          /\ history[i].content = calls[c].content
                          /\ i = Len(calls[c].turnBefore) + 1

\* C14: functionPrompt passes the result through transformFunctionResult, adds
\* the transformed value as text (a string unchanged, JSON otherwise) as a
\* function message carrying the name, and only then runs onFunctionPrompt,
\* moderation and completion; when one of these fails, onFunctionPromptError
\* runs and the function message is removed from the history.
C14_FunctionPromptStagesAndRollback ==
    \A c \in Calls :
        calls[c].op = "functionPrompt" =>
            /\ FunctionPromptStagesInOrder(c)
            /\ TurnFailed(c) =>
                   /\ "onFunctionPromptError" \in Logged(c)
                   /\ calls[c].msg \notin Ids(history)
                   /\ history = calls[c].turnBefore

\* The part of C14 the code keeps: the stages run in the order stated, and on
\* failure onFunctionPromptError runs; the function message is removed when
\* that hook returns, and stays in the history when that hook fails.
FunctionPromptStagesRollbackWhenErrorHookReturns ==
    \A c \in Calls :
        calls[c].op = "functionPrompt" =>
            /\ FunctionPromptStagesInOrder(c)
            /\ TurnFailed(c) =>
                   /\ "onFunctionPromptError" \in Logged(c)
                   /\ IF calls[c].errorHookFailed
                      THEN /\ Len(history) = Len(calls[c].turnBefore) + 1
                           /\ SubSeq(history, 1, Len(calls[c].turnBefore))
                                  = calls[c].turnBefore
                           /\ history[Len(history)].id = calls[c].msg
                           /\ history[Len(history)].role = "function"
                      ELSE history = calls[c].turnBefore

\* The hooks the plugin service dispatches during a turn.
HookNames ==
    {"onUserPrompt", "onFunctionPrompt", "onUserPromptError",
     "onFunctionPromptError", "transformFunctionResult"}

\* The plugins of a sequence of completed hooks, in order.
PluginsOf(ran) == [i \in DOMAIN ran |-> ran[i].plugin]

\* C15: within one dispatch the hooks run one after another in the order of
\* the pipeline: the global plugins registered at construction first, then the
\* conversation's own plugins, each group in its given order. A hook is started
\* only when the hooks before it in that order have completed, and the hooks of
\* one dispatch are not mixed with those of another dispatch of the call.
C15_HooksRunInPipelineOrder ==
    \A c \in Calls : \A hook \in HookNames :
        LET ran == HooksRun(c, hook)
            all == calls[c].hooks
            order == globalPlugins \o plugins
        IN  /\ Len(ran) <= Len(order)
            /\ PluginsOf(ran) = SubSeq(order, 1, Len(ran))
            /\ \A i \in DOMAIN ran :
                   /\ i <= Len(globalPlugins) => ran[i].plugin = globalPlugins[i]
                   /\ i > Len(globalPlugins) =>
                          ran[i].plugin = plugins[i - Len(globalPlugins)]
            /\ \A i, j \in DOMAIN all :
                   (i < j /\ all[i].hook = hook /\ all[j].hook = hook) =>
                       \A k \in i .. j : all[k].hook = hook

\* The onUserPrompt hooks of a prompt have all run: those of the global
\* plugins g1 and g2, then that of the conversation's plugin p1.
C15_Witness ==
    \E c \in Calls :
        /\ calls[c].op = "prompt" /\ calls[c].pc = "moderateMessage"
        /\ PluginsOf(HooksRun(c, "onUserPrompt")) = <<"g1", "g2", "p1">>

\* A hook of this dispatch of call c failed.
HookFailed(c, hook) == \E i \in DOMAIN calls[c].hooks :
                           calls[c].hooks[i].hook = hook /\ ~calls[c].hooks[i].ok

\* C16: when a plugin's hook fails during a dispatch, no hook of a later
\* plugin runs in that dispatch, and the failure reaches the caller of the
\* dispatch: a failed onUserPrompt / onFunctionPrompt hook takes the turn to
\* its catch block with the hook's error and no moderation or completion is
\* requested; a failed transformFunctionResult hook or error hook ends the
\* call with that hook's error.
C16_HookFailurePropagates ==
    \A c \in Calls :
        /\ \A hook \in HookNames :
               LET ran == HooksRun(c, hook)
               IN  \A i \in DOMAIN ran : ~ran[i].ok => i = Len(ran)
        /\ \A hook \in {"onUserPrompt", "onFunctionPrompt"} :
               HookFailed(c, hook) =>
                   /\ calls[c].pc \in {"catch", "threw"}
                   /\ calls[c].err = HookError
                   /\ "moderationRequest" \notin Logged(c)
                   /\ "completionRequest" \notin Logged(c)
                   /\ calls[c].result = 0
        /\ HookFailed(c, "transformFunctionResult") =>
               /\ calls[c].pc = "threw"
               /\ calls[c].thrown = TransformError
               /\ calls[c].msg = 0
        /\ \A hook \in {"onUserPromptError", "onFunctionPromptError"} :
               HookFailed(c, hook) =>
                   /\ calls[c].pc = "threw"
                   /\ calls[c].thrown = ErrorHookError

\* The onUserPrompt hook of the second plugin of a prompt failed: the hook of
\* the third plugin has not run and the turn is in its catch block.
C16_Witness ==
    \E c \in Calls :
        /\ calls[c].op = "prompt" /\ calls[c].pc = "catch"
        /\ calls[c].err = HookError
        /\ PluginsOf(HooksRun(c, "onUserPrompt")) = <<"g1", "g2">>
        /\ HookFailed(c, "onUserPrompt")

\* The texts of a sequence of chunks, joined in order.
RECURSIVE Joined(_)
Joined(chunks) == IF chunks = << >> THEN "" ELSE Head(chunks) \o Joined(Tail(chunks))

\* The completion of call c is streamed and its assistant message was created.
Streamed(c) == calls[c].stream /\ calls[c].result # 0

\* C17: the assistant message of a streamed response starts with empty content
\* and streaming = true; the chunks are appended to the content in arrival
\* order, so that the content is at every moment the chunks read so far joined
\* in that order; after the last chunk streaming is false and the content is
\* all chunks joined: "Hel", "lo", "!" give "Hello!". The message of the
\* history is that message.
C17_StreamedChunksAssembleInOrder ==
    \A c \in Calls :
        Streamed(c) =>
            LET m == calls[c].response
                read == calls[c].chunks
            IN  /\ calls[c].pc \in {"streaming", "returned"}
                /\ m.id = calls[c].result /\ m.role = "assistant"
                /\ read = SubSeq(<<"Hel", "lo", "!">>, 1, Len(read))
                /\ m.content = Joined(read)
                /\ read = << >> => m.content = ""
                /\ calls[c].pc = "streaming" => m.streaming
                /\ calls[c].pc = "returned" =>
                       /\ ~m.streaming
                       /\ read = <<"Hel", "lo", "!">>
                       /\ m.content = "Hello!"
                /\ \E i \in DOMAIN history : history[i] = m

\* The stream "Hel", "lo", "!" of a prompt has ended: the assistant message at
\* the end of the history has the content "Hello!" and is not streaming.
C17_Witness ==
    \E c \in Calls :
        /\ calls[c].op = "prompt" /\ Streamed(c) /\ calls[c].pc = "returned"
        /\ history[Len(history)].id = calls[c].result
        /\ history[Len(history)].content = "Hello!"
        /\ ~history[Len(history)].streaming

\* C18: nothing serializes overlapping calls. While a call is in flight, a
\* call of prompt, of functionPrompt and of reprompt can start at once on the
\* same Conversation, whatever stage the first call is in.
C18_OverlappingCallsStart ==
    \A c, d \in Calls :
        (InFlight(c) /\ Free(d)) =>
            /\ ENABLED (\E p \in Prompts : Prompt(d, p))
            /\ ENABLED (\E n \in FunctionNames, r \in FunctionResults :
                            FunctionPrompt(d, n, r))
            /\ ENABLED (\E id \in TargetIds, np \in NewPrompts : Reprompt(d, id, np))

\* The interleaving of C18: two prompts on an empty history, the second
\* started before the first sent its completion request. The messages sent
\* for the first call's completion hold the second call's user message, and in
\* the history the first user message is followed by the second user message,
\* not by its assistant response.
C18_Witness ==
    /\ calls[1].op = "prompt" /\ calls[2].op = "prompt"
    /\ calls[1].before = << >>
    /\ calls[1].pc = "returned" /\ calls[2].pc = "returned"
    /\ calls[2].msg \in Ids(calls[1].snapshot)
    /\ calls[2].result \notin Ids(calls[1].snapshot)
    /\ Len(history) = 4
    /\ history[1].id = calls[1].msg /\ history[2].id = calls[2].msg
    /\ history[1].role = "user" /\ history[2].role = "user"
    /\ history[3].role = "assistant" /\ history[4].role = "assistant"

\* C19: the messages the completion step reads from the history (the snapshot
\* sent with a completion request) never hold a message that another operation
\* is still mutating: no assistant message that is streaming, whose content
\* the call that streams it is still appending to.
C19_SnapshotHoldsNoStreamingMessage ==
    \A c \in Calls :
        \A i \in DOMAIN calls[c].snapshot : ~calls[c].snapshot[i].streaming

\* fromJSON(toJSON(c)) for the Conversation of the model with this id and
\* plugin data is a Conversation with the id of c, the messages of c in the
\* same order (with their roles and content), the config of c (credential,
\* dry, moderation setting) and the plugin data of c.
RoundTrips(id, data, pluginsParam) ==
    LET c == ThisConversation(id, data)
        r == fromJSON(toJSON(c), pluginsParam)
    IN  /\ r.id = id
        /\ Len(r.history) = Len(history)
        /\ \A i \in DOMAIN history :
               /\ r.history[i].role = history[i].role
               /\ r.history[i].content = history[i].content
        /\ r.config.apiKey = config.apiKey
        /\ r.config.dry = config.dry
        /\ r.config.disableModeration = config.disableModeration
        /\ r.pluginsData = data

DryAt(c) == calls[c].modConfig # NoConfig /\ calls[c].modConfig.dry = "true"

\* C21: when dry is true (as requested, or as the setter forced it because no
\* credential is configured), a turn makes no request to the remote completion
\* service, and the assistant message it returns has the content of the latest
\* message of the history at that time, which is the message the turn added.
C21_DryTurnMirrorsLatestMessage ==
    \A c \in Calls :
        /\ (calls[c].modConfig # NoConfig /\ calls[c].modConfig.apiKey = "") => DryAt(c)
        /\ DryAt(c) =>
               /\ "completionRequest" \notin Logged(c)
               /\ calls[c].snapshot = << >>
               /\ calls[c].err # TransportError
               /\ calls[c].pc = "returned" =>
                      LET n == Len(history)
                      IN  /\ n >= 2
                          /\ history[n].id = calls[c].result
                          /\ history[n].role = "assistant"
                          /\ history[n - 1].id = calls[c].msg
                          /\ history[n].content = history[n - 1].content
                          /\ history[n].content = calls[c].content

\* A dry functionPrompt("f", 1) returned: the assistant message mirrors the
\* function message "1", and no completion request was made.
C21_Witness ==
    \E c \in Calls :
        /\ calls[c].op = "functionPrompt" /\ calls[c].pc = "returned" /\ DryAt(c)
        /\ calls[c].modConfig.apiKey = "sk"
        /\ calls[c].transformed = NumVal(1)
        /\ history[Len(history)].content = "1"
        /\ history[Len(history)].role = "assistant"
        /\ "completionRequest" \notin Logged(c)

\* The place of an event in the order of the stages of prompt.
PromptStageRank(e) ==
    CASE e = "addUserMessage" -> 1
      [] e = "onUserPrompt" -> 2
      [] e = "moderationRequest" -> 3
      [] e = "completionRequest" -> 4
      [] e = "onUserPromptError" -> 5
      [] e = "removeMessage" -> 6
      [] OTHER -> 0

\* Every plugin's hook of the dispatch ran for call c and returned.
HooksReturned(c, hook) ==
    /\ Len(HooksRun(c, hook)) = Len(PluginList)
    /\ \A i \in DOMAIN HooksRun(c, hook) : HooksRun(c, hook)[i].ok

\* Moderation let the message of call c through: it is disabled, or the check
\* was requested and did not flag the message in strict mode.
ModerationPassed(c) ==
    /\ calls[c].modConfig # NoConfig
    /\ isModerationEnabled(calls[c].modConfig) <=> "moderationRequest" \in Logged(c)
    /\ ~(isModerationStrict(calls[c].modConfig) /\ calls[c].flagged # {})

\* C22: within one prompt call the stages run in a fixed order, each one only
\* after the one before it completed successfully: the user message is in the
\* history when the onUserPrompt hooks fire, every onUserPrompt hook has
\* returned when moderation starts, and the completion is requested only after
\* moderation passed; on failure the onUserPromptError dispatch runs once,
\* while the user message is still in the history, and the message is removed
\* only after it.
C22_PromptStagesInOrder ==
    \A c \in Calls :
        (calls[c].op \in {"prompt", "reprompt"} /\ calls[c].msg # 0) =>
            LET log == calls[c].log
            IN  /\ \A i \in DOMAIN log : PromptStageRank(log[i]) > 0
                /\ \A i, j \in DOMAIN log :
                       i < j => PromptStageRank(log[i]) < PromptStageRank(log[j])
                /\ log # << >> /\ log[1] = "addUserMessage"
                /\ calls[c].pc = "onUserPrompt" =>
                       /\ calls[c].msg \in Ids(history)
                       /\ log = <<"addUserMessage">>
                /\ (calls[c].pc = "moderateMessage" \/ "moderationRequest" \in Logged(c)) =>
                       /\ HooksReturned(c, "onUserPrompt")
                       /\ "onUserPrompt" \in Logged(c)
                /\ (\/ calls[c].pc \in {"getAssistantResponse", "completionResponse",
                                         "streaming", "returned"}
                    \/ "completionRequest" \in Logged(c)) =>
                       /\ HooksReturned(c, "onUserPrompt")
                       /\ ModerationPassed(c)
                /\ calls[c].pc = "catch" =>
                       /\ calls[c].err # NoError
                       /\ calls[c].msg \in Ids(history)
                       /\ "onUserPromptError" \notin Logged(c)
                /\ calls[c].pc = "threw" =>
                       /\ "onUserPromptError" \in Logged(c)
                       /\ Len(HooksRun(c, "onUserPromptError")) \in 1 .. Len(PluginList)
                /\ calls[c].msg \notin Ids(history) =>
                       /\ calls[c].pc = "threw"
                       /\ Len(log) >= 3
                       /\ SubSeq(log, Len(log) - 1, Len(log))
                              = <<"onUserPromptError", "removeMessage">>

\* A prompt went through every stage and failed at the completion: the error
\* hooks of all plugins ran once each, and the user message was removed last.
C22_Witness ==
    \E c \in Calls :
        /\ calls[c].op = "prompt" /\ calls[c].pc = "threw"
        /\ calls[c].log = <<"addUserMessage", "onUserPrompt", "moderationRequest",
                            "completionRequest", "onUserPromptError", "removeMessage">>
        /\ Len(HooksRun(c, "onUserPromptError")) = Len(PluginList)
        /\ calls[c].thrown = TransportError
        /\ calls[c].msg \notin Ids(history)

\* The user and function messages of a history, in order.
TurnMessages(h) == SelectSeq(h, LAMBDA m : m.role \in {"user", "function"})

\* C23: a manual getChatCompletionResponse call bypasses the turn pipeline: it
\* adds no user or function message, runs no prompt hook and no moderation
\* check, and when it fails the history is left as it was, with no rollback.
C23_ManualCompletionBypassesPipeline ==
    \A c \in Calls :
        calls[c].op = "getChatCompletionResponse" =>
            /\ calls[c].msg = 0
            /\ calls[c].hooks = << >>
            /\ calls[c].modConfig = NoConfig /\ calls[c].flagged = {}
            /\ Logged(c) \subseteq {"completionRequest"}
            /\ calls[c].pc \notin {"catch", "moderateMessage", "onUserPrompt",
                                   "onFunctionPrompt"}
            /\ TurnMessages(history) = TurnMessages(calls[c].before)
            /\ Len(history) \in {Len(calls[c].before), Len(calls[c].before) + 1}
            /\ SubSeq(history, 1, Len(calls[c].before)) = calls[c].before
            /\ Len(history) > Len(calls[c].before) =>
                   /\ history[Len(history)].role = "assistant"
                   /\ history[Len(history)].id = calls[c].result
            /\ calls[c].pc = "threw" =>
                   /\ history = calls[c].before
                   /\ calls[c].thrown = TransportError
                   /\ calls[c].err = NoError

\* A manual request on a history of three messages failed: the three messages
\* are still there, and only the request was made.
C23_Witness ==
    \E c \in Calls :
        /\ calls[c].op = "getChatCompletionResponse" /\ calls[c].pc = "threw"
        /\ calls[c].log = <<"completionRequest">>
        /\ Len(history) = 3 /\ history = calls[c].snapshot
        /\ config.disableModeration = "false"

\* The rollback of call c ran: its catch block reached removeMessage.
RolledBack(c) == "removeMessage" \in Logged(c)

\* The messages call c added other than the one a rollback removes: the user
\* or function message of the call unless `gone`, and the assistant message of
\* its response.
KeptOf(c, gone) ==
    ((IF gone THEN {} ELSE {calls[c].msg}) \cup {calls[c].result}) \ {0}

\* Two overlapping calls, each a prompt or a functionPrompt (the second slot
\* may still be free).
OverlappingTurns ==
    /\ calls[1].op \in {"prompt", "functionPrompt"}
    /\ calls[2].op \in {"none", "prompt", "functionPrompt"}

\* C24: when prompt and functionPrompt calls overlap on one Conversation and
\* one of them fails, its rollback removes exactly the one message this call
\* added: the history holds the messages from before the calls and every
\* message either call added except the message of a call that failed, all in
\* the order in which they were added.
C24_FailedCallRemovesOwnMessageOnly ==
    (OverlappingTurns /\ calls[2].op # "none" /\ calls[1].msg \in Ids(calls[2].before)) =>
        /\ Ids(history) = Ids(calls[1].before) \cup KeptOf(1, TurnFailed(1))
                                               \cup KeptOf(2, TurnFailed(2))
        /\ SubSeq(history, 1, Len(calls[1].before)) = calls[1].before
        /\ \A i, j \in DOMAIN history : i < j => history[i].id < history[j].id

\* The part of C24 the code keeps: a rollback that runs removes the message of
\* its own call and no other, whatever the other call added before or after;
\* a failed call whose error hook failed removes nothing.
OverlapRollbackRemovesOwnMessageOnly ==
    OverlappingTurns =>
        /\ Ids(history) = Ids(calls[1].before) \cup KeptOf(1, RolledBack(1))
                                               \cup KeptOf(2, RolledBack(2))
        /\ SubSeq(history, 1, Len(calls[1].before)) = calls[1].before
        /\ \A i, j \in DOMAIN history : i < j => history[i].id < history[j].id
        /\ \A c \in Calls : TurnFailed(c) => (RolledBack(c) <=> ~calls[c].errorHookFailed)

\* The transform of the result of call c failed.
TransformFailed(c) ==
    /\ calls[c].op = "functionPrompt"
    /\ TransformError \in {calls[c].thrown, calls[c].err}

\* C25: when transformFunctionResult fails inside functionPrompt, the failure
\* reaches the caller before any message is added: the history is the one
\* before the call, neither onFunctionPrompt nor onFunctionPromptError is
\* invoked, and no moderation or completion request is made.
C25_TransformFailureLeavesNoTrace ==
    \A c \in Calls :
        /\ calls[c].pc = "transformFunctionResult" => history = calls[c].before
        /\ TransformFailed(c) =>
               /\ calls[c].pc = "threw"
               /\ calls[c].thrown = TransformError
               /\ calls[c].err = NoError
               /\ history = calls[c].before
               /\ calls[c].msg = 0 /\ calls[c].result = 0
               /\ calls[c].log = <<"transformFunctionResult">>
               /\ calls[c].modConfig = NoConfig
               /\ calls[c].snapshot = << >>

\* functionPrompt("f", 1) on a history of five messages, with a live config
\* and strict moderation: the transform failed and the five messages are
\* what the history holds.
C25_Witness ==
    \E c \in Calls :
        /\ TransformFailed(c) /\ calls[c].pc = "threw"
        /\ calls[c].value = NumVal(1)
        /\ Len(history) = 5 /\ history = calls[c].before
        /\ config.dry = "false" /\ isModerationStrict(config)

\* C26: the forced dry value is sticky. Where dry is true for lack of a
\* credential, assigning an apiKey (empty or not) leaves dry true, and so does
\* every assignment of apiKey to a config whose dry is true; dry becomes false
\* only by the assignment dry = false made while a credential is configured:
\* no step takes dry from true to false otherwise.
C26_ForcedDryIsSticky ==
    /\ [](/\ config.dry = "true" =>
                 \A k \in ApiKeys : SetApiKey(config, k).dry = "true"
          /\ \A d \in DryValues :
                 SetDry(config, d).dry = "false" <=>
                     (d = "false" /\ config.apiKey # ""))
    /\ [][(config.dry = "true" /\ config'.dry = "false") =>
             (config.apiKey # "" /\ config'.apiKey = config.apiKey)]_vars

\* A turn ran with no credential and dry forced to true (the warning was
\* emitted); a credential was assigned afterwards, and dry is still true.
C26_Witness ==
    \E c \in Calls :
        /\ calls[c].pc = "returned"
        /\ calls[c].modConfig # NoConfig
        /\ calls[c].modConfig.apiKey = "" /\ calls[c].modConfig.warned
        /\ config.apiKey = "sk" /\ config.dry = "true" /\ ~config.warned

\* C27: in the web conversation manager, after any sequence of
\* addConversation, non-forced setActiveConversation and removeConversation,
\* activeId is null or the id of a Conversation still in the list; removing
\* the active Conversation leaves activeId null.
C27_ActiveIdNullOrListed ==
    activeId = Null \/ activeId \in ListedIds(conversations)

====
